---- MODULE Spec2Model ----
(***************************************************************************)
(* A model of gopher-lua's auxiliary library (auxlib.go): the typed        *)
(* argument accessors, Where, FindTable, RegisterModule, NewTypeMetatable, *)
(* LoadFile / LoadString and DoFile / DoString.                            *)
(*                                                                         *)
(* Every API call is one step.  `last` records the call made by the step   *)
(* that led to the current state: its name, its inputs and what it gave    *)
(* back to the caller (a returned value or a raised error).                *)
(***************************************************************************)
EXTENDS Integers, Sequences, FiniteSets, TLC

VARIABLES
  stack,      \* the arguments of the active native call (CallContext)
  fname,      \* the name of the function of the current frame
  frames,     \* the call stack, innermost frame first
  heap,       \* the tables of the runtime: heap[id] is the table with that id
  issued,     \* history: module name -> table the first RegisterModule returned
  mtIssued,   \* history: type name -> table the first NewTypeMetatable returned
  fs,         \* the file system: path -> whether it opens, and its content
  stdin,      \* what is left to read on standard input
  openFiles,  \* the file handles that are open
  log,        \* the trace of what the last Load/Do call did
  last        \* the last API call and its outcome

vars ==
  <<stack, fname, frames, heap, issued, mtIssued, fs, stdin, openFiles, log, last>>

(***************************************************************************)
(* Bounds of the model.                                                    *)
(***************************************************************************)
MaxArgs == 2

(***************************************************************************)
(* Script values (LValue).  A value is a record with its kind k and its    *)
(* payload v.  A number's payload is twice the number, so that 3 stands    *)
(* for 1.5 and -3 for -1.5: LNumber is a float64, and the integer          *)
(* accessors convert it.  Tables, functions, userdata and threads are      *)
(* references: the payload is the identity of the object.                  *)
(***************************************************************************)
LTNil == "nil"
LTBool == "boolean"
LTNumber == "number"
LTString == "string"
LTFunction == "function"
LTUserData == "userdata"
LTThread == "thread"
LTTable == "table"

LNil == [k |-> LTNil]
LBool(b) == [k |-> LTBool, v |-> b]
LNumber(twice) == [k |-> LTNumber, v |-> twice]
LString(s) == [k |-> LTString, v |-> s]
LTableRef(id) == [k |-> LTTable, v |-> id]
LFunctionRef(f) == [k |-> LTFunction, v |-> f]
LUserDataRef(u) == [k |-> LTUserData, v |-> u]
LThreadRef(t) == [k |-> LTThread, v |-> t]

\* v.Type()
Type(v) == v.k

\* LValueType.String()
TypeString(typ) == typ

\* The values a script passes to a native function in this model.
ArgValues ==
  { LNil, LBool(TRUE), LNumber(3), LNumber(-3), LString(<<"s">>),
    LTableRef(1), LFunctionRef("g1"), LUserDataRef("u1"), LThreadRef("t1") }

(***************************************************************************)
(* What a call gives back: a value returned to the caller, or an error     *)
(* raised through the runtime's error channel (an abrupt unwind: nothing   *)
(* is returned to the caller).                                             *)
(***************************************************************************)
Return(x) == [st |-> "return", val |-> x]
RaiseError(msg) == [st |-> "raise", msg |-> msg]

\* fmt's %v of a non-negative int: its decimal digits.
Digit(i) == <<"0", "1", "2", "3", "4", "5", "6", "7", "8", "9">>[i + 1]

RECURSIVE Itoa(_)
Itoa(i) == IF i < 10 THEN <<Digit(i)>> ELSE Itoa(i \div 10) \o <<Digit(i % 10)>>

\* ls.Get(n) for a positive n: the argument at n, LNil beyond the top.
Get(n) == IF n >= 1 /\ n <= Len(stack) THEN stack[n] ELSE LNil

\* ls.frameFuncName(ls.currentFrame)
frameFuncName == fname

\* Go's int(x) and int64(x) of a float64: truncation toward zero.
GoInt(twice) == IF twice >= 0 THEN twice \div 2 ELSE -((-twice) \div 2)

(***************************************************************************)
(* error operations                                                        *)
(***************************************************************************)
TypeError(n, typ) ==
  RaiseError(<<"bad argument #">> \o Itoa(n) \o <<" to ", frameFuncName, " (",
               TypeString(typ), " expected, got ", TypeString(Type(Get(n))), ")">>)

(***************************************************************************)
(* checkType                                                               *)
(***************************************************************************)
CheckInt_wrongKind(n) ==
  LET v == Get(n) IN
  IF Type(v) \in {LTNumber, LTBool}
    THEN Return([k |-> "int", v |-> IF Type(v) = LTNumber THEN GoInt(v.v) ELSE 0])
    ELSE TypeError(n, LTNumber)

CheckInt(n) ==
  LET v == Get(n) IN
  IF Type(v) = LTNumber THEN Return([k |-> "int", v |-> GoInt(v.v)])
  ELSE TypeError(n, LTNumber)

CheckInt64(n) ==
  LET v == Get(n) IN
  IF Type(v) = LTNumber THEN Return([k |-> "int64", v |-> GoInt(v.v)])
  ELSE TypeError(n, LTNumber)

CheckNumber(n) ==
  LET v == Get(n) IN
  IF Type(v) = LTNumber THEN Return([k |-> "LNumber", v |-> v.v])
  ELSE TypeError(n, LTNumber)

CheckString(n) ==
  LET v == Get(n) IN
  IF Type(v) = LTString THEN Return([k |-> "gostring", v |-> v.v])
  ELSE TypeError(n, LTString)

CheckBool(n) ==
  LET v == Get(n) IN
  IF Type(v) = LTBool THEN Return([k |-> "bool", v |-> v.v])
  ELSE TypeError(n, LTBool)

CheckTable(n) ==
  LET v == Get(n) IN
  IF Type(v) = LTTable THEN Return([k |-> "*LTable", v |-> v.v])
  ELSE TypeError(n, LTTable)

CheckFunction(n) ==
  LET v == Get(n) IN
  IF Type(v) = LTFunction THEN Return([k |-> "*LFunction", v |-> v.v])
  ELSE TypeError(n, LTFunction)

CheckUserData(n) ==
  LET v == Get(n) IN
  IF Type(v) = LTUserData THEN Return([k |-> "*LUserData", v |-> v.v])
  ELSE TypeError(n, LTUserData)

CheckThread(n) ==
  LET v == Get(n) IN
  IF Type(v) = LTThread THEN Return([k |-> "*LState", v |-> v.v])
  ELSE TypeError(n, LTThread)

(***************************************************************************)
(* optType                                                                 *)
(***************************************************************************)
OptInt(n, d) ==
  LET v == Get(n) IN
  IF v = LNil THEN Return([k |-> "int", v |-> d])
  ELSE IF Type(v) = LTNumber THEN Return([k |-> "int", v |-> GoInt(v.v)])
  ELSE TypeError(n, LTNumber)

OptInt64(n, d) ==
  LET v == Get(n) IN
  IF v = LNil THEN Return([k |-> "int64", v |-> d])
  ELSE IF Type(v) = LTNumber THEN Return([k |-> "int64", v |-> GoInt(v.v)])
  ELSE TypeError(n, LTNumber)

OptNumber(n, d) ==
  LET v == Get(n) IN
  IF v = LNil THEN Return([k |-> "LNumber", v |-> d])
  ELSE IF Type(v) = LTNumber THEN Return([k |-> "LNumber", v |-> v.v])
  ELSE TypeError(n, LTNumber)

OptString(n, d) ==
  LET v == Get(n) IN
  IF v = LNil THEN Return([k |-> "gostring", v |-> d])
  ELSE IF Type(v) = LTString THEN Return([k |-> "gostring", v |-> v.v])
  ELSE TypeError(n, LTString)

OptBool_defaultOnMismatch(n, d) ==
  LET v == Get(n) IN
  IF Type(v) = LTBool THEN Return([k |-> "bool", v |-> v.v])
  ELSE Return([k |-> "bool", v |-> d])

OptBool(n, d) ==
  LET v == Get(n) IN
  IF v = LNil THEN Return([k |-> "bool", v |-> d])
  ELSE IF Type(v) = LTBool THEN Return([k |-> "bool", v |-> v.v])
  ELSE TypeError(n, LTBool)

OptTable(n, d) ==
  LET v == Get(n) IN
  IF v = LNil THEN Return([k |-> "*LTable", v |-> d])
  ELSE IF Type(v) = LTTable THEN Return([k |-> "*LTable", v |-> v.v])
  ELSE TypeError(n, LTTable)

OptFunction(n, d) ==
  LET v == Get(n) IN
  IF v = LNil THEN Return([k |-> "*LFunction", v |-> d])
  ELSE IF Type(v) = LTFunction THEN Return([k |-> "*LFunction", v |-> v.v])
  ELSE TypeError(n, LTFunction)

OptUserData(n, d) ==
  LET v == Get(n) IN
  IF v = LNil THEN Return([k |-> "*LUserData", v |-> d])
  ELSE IF Type(v) = LTUserData THEN Return([k |-> "*LUserData", v |-> v.v])
  ELSE TypeError(n, LTUserData)

(***************************************************************************)
(* Strings are sequences of characters.                                    *)
(***************************************************************************)
Dot == "."
LOADED == <<"_", "L", "O", "A", "D", "E", "D">>

\* The index of the first sep in s, 0 if there is none.
RECURSIVE IndexFrom(_, _, _)
IndexFrom(s, sep, i) ==
  IF i > Len(s) THEN 0
  ELSE IF s[i] = sep THEN i
  ELSE IndexFrom(s, sep, i + 1)

\* strings.Split(s, sep) for a one-character sep: never empty, "" gives [""].
RECURSIVE Split(_, _)
Split(s, sep) ==
  LET i == IndexFrom(s, sep, 1) IN
  IF i = 0 THEN <<s>>
  ELSE <<SubSeq(s, 1, i - 1)>> \o Split(SubSeq(s, i + 1, Len(s)), sep)

(***************************************************************************)
(* Tables.  heap[id] is a function from the keys present in the table to   *)
(* their (non-Nil) values.  The registry and the globals table exist from  *)
(* the construction of the runtime.                                        *)
(***************************************************************************)
MaxTables == 5

RegistryIndex == 1
GlobalsIndex == 2

EmptyTable == [x \in {} |-> LNil]

\* ls.Get(RegistryIndex), ls.Get(GlobalsIndex)
GetIndex(idx) == LTableRef(idx)

\* ls.RawGet(tb, key)
RawGet(h, tb, key) ==
  IF key \in DOMAIN h[tb.v] THEN h[tb.v][key] ELSE LNil

\* ls.RawSet(tb, key, value), LTable.RawSetH(key, value), for a non-Nil value
RawSet(h, tb, key, value) ==
  [h EXCEPT ![tb.v] =
     [x \in (DOMAIN @) \cup {key} |-> IF x = key THEN value ELSE @[x]]]

\* ls.GetField(obj, key) and ls.SetField(obj, key, value) on a table without
\* a metatable
GetField(h, obj, key) ==
  IF Type(obj) = LTTable THEN RawGet(h, obj, LString(key)) ELSE LNil

SetField(h, obj, key, value) == RawSet(h, obj, LString(key), value)

\* ls.CreateTable(acap, hcap), ls.NewTable(): a new empty table
CreateTable(h, acap, hcap) ==
  [heap |-> Append(h, EmptyTable), tb |-> LTableRef(Len(h) + 1)]

NewTable(h) == CreateTable(h, 0, 0)

\* ls.NewFunction(fn)
NewFunction(fn) == LFunctionRef(fn)

(***************************************************************************)
(* table operations                                                        *)
(***************************************************************************)
\* The loop of FindTable over the names that are left.
RECURSIVE FindTableLoop(_, _, _, _)
FindTableLoop(h, curobj, names, size) ==
  IF names = <<>> THEN [heap |-> h, ret |-> curobj]
  ELSE IF Type(curobj) # LTTable THEN [heap |-> h, ret |-> LNil]
  ELSE
    LET name == Head(names)
        nextobj == RawGet(h, curobj, LString(name))
    IN
    IF nextobj = LNil THEN
      LET c == CreateTable(h, 0, size) IN
      FindTableLoop(RawSet(c.heap, curobj, LString(name), c.tb), c.tb,
                    Tail(names), size)
    ELSE IF Type(nextobj) # LTTable THEN [heap |-> h, ret |-> LNil]
    ELSE FindTableLoop(h, nextobj, Tail(names), size)

\* A FindTable that replaces a non-table value on the path by a new table.
RECURSIVE FindTableLoop_overwrite(_, _, _, _)
FindTableLoop_overwrite(h, curobj, names, size) ==
  IF names = <<>> THEN [heap |-> h, ret |-> curobj]
  ELSE IF Type(curobj) # LTTable THEN [heap |-> h, ret |-> LNil]
  ELSE
    LET name == Head(names)
        nextobj == RawGet(h, curobj, LString(name))
    IN
    IF Type(nextobj) # LTTable THEN
      LET c == CreateTable(h, 0, size) IN
      FindTableLoop_overwrite(RawSet(c.heap, curobj, LString(name), c.tb), c.tb,
                              Tail(names), size)
    ELSE FindTableLoop_overwrite(h, nextobj, Tail(names), size)

\* A FindTable that creates a table at every segment, present or not.
RECURSIVE FindTableLoop_recreate(_, _, _, _)
FindTableLoop_recreate(h, curobj, names, size) ==
  IF names = <<>> THEN [heap |-> h, ret |-> curobj]
  ELSE IF Type(curobj) # LTTable THEN [heap |-> h, ret |-> LNil]
  ELSE
    LET name == Head(names)
        nextobj == RawGet(h, curobj, LString(name))
    IN
    IF nextobj = LNil \/ Tail(names) = <<>> THEN
      LET c == CreateTable(h, 0, size) IN
      FindTableLoop_recreate(RawSet(c.heap, curobj, LString(name), c.tb), c.tb,
                             Tail(names), size)
    ELSE IF Type(nextobj) # LTTable THEN [heap |-> h, ret |-> LNil]
    ELSE FindTableLoop_recreate(h, nextobj, Tail(names), size)

FindTable_overwrite(h, obj, n, size) ==
  FindTableLoop_overwrite(h, obj, Split(n, Dot), size)

FindTable_recreate(h, obj, n, size) ==
  FindTableLoop_recreate(h, obj, Split(n, Dot), size)

FindTable(h, obj, n, size) == FindTableLoop(h, obj, Split(n, Dot), size)

(***************************************************************************)
(* register operations.  funcs is a map from function names to native      *)
(* functions.  Each operation gives the heap it leaves and its outcome.    *)
(***************************************************************************)
\* for fname, fn := range funcs { newmodtb.RawSetH(LString(fname), ls.NewFunction(fn)) }
RECURSIVE SetFuncs(_, _, _, _)
SetFuncs(h, tb, funcs, todo) ==
  IF todo = {} THEN h
  ELSE LET f == CHOOSE x \in todo : TRUE IN
       SetFuncs(RawSet(h, tb, LString(f), NewFunction(funcs[f])), tb, funcs,
                todo \ {f})

NameConflict(name) == <<"name conflict for module(">> \o name \o <<")">>

\* A RegisterModule that merges funcs into a module that is already loaded.
RegisterModule_remerge(h, name, funcs) ==
  LET ft == FindTable(h, GetIndex(RegistryIndex), LOADED, 1)
      tb == ft.ret
      mod == GetField(ft.heap, tb, name)
      nm == IF Type(mod) = LTTable
              THEN [heap |-> ft.heap, ret |-> mod]
              ELSE FindTable(ft.heap, GetIndex(GlobalsIndex), name,
                             Cardinality(DOMAIN funcs))
  IN
  IF Type(nm.ret) # LTTable
    THEN [heap |-> nm.heap, res |-> RaiseError(NameConflict(name))]
    ELSE [heap |-> SetField(SetFuncs(nm.heap, nm.ret, funcs, DOMAIN funcs),
                            tb, name, nm.ret),
          res |-> Return(nm.ret)]

\* A RegisterModule that installs funcs over a conflicting global.
RegisterModule_clobber(h, name, funcs) ==
  LET ft == FindTable(h, GetIndex(RegistryIndex), LOADED, 1)
      tb == ft.ret
      mod == GetField(ft.heap, tb, name)
  IN
  IF Type(mod) # LTTable THEN
    LET nm == FindTable_overwrite(ft.heap, GetIndex(GlobalsIndex), name,
                                  Cardinality(DOMAIN funcs))
    IN
    IF Type(nm.ret) # LTTable
      THEN [heap |-> nm.heap, res |-> RaiseError(NameConflict(name))]
      ELSE [heap |-> SetField(SetFuncs(nm.heap, nm.ret, funcs, DOMAIN funcs),
                              tb, name, nm.ret),
            res |-> Return(nm.ret)]
  ELSE [heap |-> ft.heap, res |-> Return(mod)]

RegisterModule(h, name, funcs) ==
  LET ft == FindTable(h, GetIndex(RegistryIndex), LOADED, 1)
      tb == ft.ret
      mod == GetField(ft.heap, tb, name)
  IN
  IF Type(mod) # LTTable THEN
    LET nm == FindTable(ft.heap, GetIndex(GlobalsIndex), name,
                        Cardinality(DOMAIN funcs))
    IN
    IF Type(nm.ret) # LTTable
      THEN [heap |-> nm.heap, res |-> RaiseError(NameConflict(name))]
      ELSE [heap |-> SetField(SetFuncs(nm.heap, nm.ret, funcs, DOMAIN funcs),
                              tb, name, nm.ret),
            res |-> Return(nm.ret)]
  ELSE [heap |-> ft.heap, res |-> Return(mod)]

(***************************************************************************)
(* metatable operations                                                    *)
(***************************************************************************)
\* A NewTypeMetatable that makes a new table at every call.
NewTypeMetatable_always(h, typ) ==
  LET regtable == GetIndex(RegistryIndex)
      c == NewTable(h)
  IN [heap |-> SetField(c.heap, regtable, typ, c.tb), res |-> Return(c.tb)]

NewTypeMetatable(h, typ) ==
  LET regtable == GetIndex(RegistryIndex)
      mt == GetField(h, regtable, typ)
  IN
  IF Type(mt) = LTTable THEN [heap |-> h, res |-> Return(mt)]
  ELSE LET c == NewTable(h) IN
       [heap |-> SetField(c.heap, regtable, typ, c.tb), res |-> Return(c.tb)]

\* ls.GetTypeMetatable(typ)
GetTypeMetatable(h, typ) == GetField(h, GetIndex(RegistryIndex), typ)

(***************************************************************************)
(* debug operations.  A frame holds its function and its program counter;  *)
(* a native function has no prototype (NilProto).  A script frame that     *)
(* runs has executed at least one instruction: 1 <= Pc <= the number of    *)
(* its instructions.                                                       *)
(***************************************************************************)
MaxDepth == 3

NilProto == [nil |-> TRUE]

Protos ==
  { [nil |-> FALSE, SourceName |-> "a.lua", DbgSourcePositions |-> <<1, 12>>],
    [nil |-> FALSE, SourceName |-> "<string>", DbgSourcePositions |-> <<7>>] }

\* ls.GetStack(level): the frame level levels up from the innermost one.
GetStack(level) ==
  IF level >= 0 /\ level < Len(frames)
    THEN [ok |-> TRUE, frame |-> frames[level + 1]]
    ELSE [ok |-> FALSE]

\* A Where that gives the empty string for a frame without a prototype.
Where_emptyForNative(level) ==
  LET dbg == GetStack(level) IN
  IF ~dbg.ok THEN <<>>
  ELSE
    LET cf == dbg.frame
        proto == cf.Fn.Proto
    IN
    IF proto = NilProto THEN <<>>
    ELSE <<proto.SourceName, ":">>
           \o Itoa(proto.DbgSourcePositions[(cf.Pc - 1) + 1]) \o <<":">>

\* DbgSourcePositions[cf.Pc-1] indexes from 0; sequences here index from 1.
Where(level) ==
  LET dbg == GetStack(level) IN
  IF ~dbg.ok THEN <<>>
  ELSE
    LET cf == dbg.frame
        proto == cf.Fn.Proto
        sourcename == IF proto # NilProto THEN proto.SourceName ELSE "[G]"
        line == IF proto # NilProto
                  THEN Itoa(proto.DbgSourcePositions[(cf.Pc - 1) + 1]) \o <<":">>
                  ELSE <<>>
    IN <<sourcename, ":">> \o line

(***************************************************************************)
(* load and function call operations.  A source text is a sequence of      *)
(* statements: "s" runs, "e" raises a runtime error, "x" does not parse.   *)
(* The log lists what a call did, in order.                                *)
(***************************************************************************)
MaxSrcLen == 2

Stmts == {"s", "e", "x"}

Sources == UNION { [1..n -> Stmts] : n \in 0..MaxSrcLen }

NoError == [type |-> "nil"]
NilFunction == [k |-> "nil *LFunction"]

\* newApiError(code, message, object)
newApiError(code, message) == [type |-> code, msg |-> message]

ApiErrorFile == "ApiErrorFile"
ApiErrorSyntax == "ApiErrorSyntax"
ApiErrorRun == "ApiErrorRun"

\* filepath.Base(path)
RECURSIVE StripTrailingSlashes(_)
StripTrailingSlashes(path) ==
  IF Len(path) > 0 /\ path[Len(path)] = "/"
    THEN StripTrailingSlashes(SubSeq(path, 1, Len(path) - 1))
    ELSE path

RECURSIVE LastSlash(_, _)
LastSlash(path, i) ==
  IF i >= 1 /\ path[i] # "/" THEN LastSlash(path, i - 1) ELSE i

Base(path) ==
  IF path = <<>> THEN <<".">>
  ELSE
    LET p == StripTrailingSlashes(path)
        i == LastSlash(p, Len(p))
        q == IF i >= 1 THEN SubSeq(p, i + 1, Len(p)) ELSE p
    IN IF q = <<>> THEN <<"/">> ELSE q

\* ls.Load(reader, name): parse and compile everything the reader gives.
Load(content, name) ==
  IF \E i \in 1..Len(content) : content[i] = "x"
    THEN [fn |-> NilFunction,
          err |-> newApiError(ApiErrorSyntax, name \o <<": syntax error">>),
          log |-> <<<<"compile", name>>>>]
    ELSE [fn |-> LFunctionRef([name |-> name, code |-> content]),
          err |-> NoError,
          log |-> <<<<"compile", name>>>>]

\* os.Open(path)
OsOpen(path) ==
  IF path \in DOMAIN fs /\ fs[path].exists
    THEN [file |-> path, err |-> FALSE]
    ELSE [file |-> "nil", err |-> TRUE]

\* The statements a chunk runs until it ends or one raises.
RECURSIVE Run(_, _)
Run(code, i) ==
  IF i > Len(code) THEN [log |-> <<>>, raised |-> FALSE]
  ELSE IF code[i] = "e" THEN [log |-> <<<<"stmt", i>>>>, raised |-> TRUE]
  ELSE LET r == Run(code, i + 1) IN
       [log |-> <<<<"stmt", i>>>> \o r.log, raised |-> r.raised]

\* ls.Push(value)
Push(reg, value) == Append(reg, value)

\* ls.PCall(nargs, nret, errfunc): calls the function below the nargs
\* arguments on top of the stack; an error the call raises is caught and
\* returned.  The function and its arguments are popped; the chunks of this
\* model return no value.
PCall(reg, nargs) ==
  LET fn == reg[Len(reg) - nargs]
      r == IF Type(fn) = LTFunction THEN Run(fn.v.code, 1)
           ELSE [log |-> <<>>, raised |-> TRUE]
  IN [reg |-> SubSeq(reg, 1, Len(reg) - nargs - 1),
      err |-> IF r.raised THEN newApiError(ApiErrorRun, <<"boom">>) ELSE NoError,
      log |-> <<<<"invoke", nargs>>>> \o r.log]

\* A LoadFile that closes the file only when it could not be opened.
LoadFile_leak(path) ==
  IF Len(path) = 0 THEN
    LET r == Load(stdin, Base(path)) IN
    [fn |-> r.fn, err |-> r.err, log |-> <<<<"read stdin">>>> \o r.log,
     open |-> openFiles, stdin |-> <<>>]
  ELSE
    LET o == OsOpen(path) IN
    IF o.err THEN
      [fn |-> NilFunction,
       err |-> newApiError(ApiErrorFile, <<"can not read ">> \o path),
       log |-> <<<<"open failed", path>>>>, open |-> openFiles, stdin |-> stdin]
    ELSE
      LET r == Load(fs[path].data, Base(path)) IN
      [fn |-> r.fn, err |-> r.err,
       log |-> <<<<"open", o.file>>>> \o r.log,
       open |-> openFiles \cup {o.file}, stdin |-> stdin]

\* The deferred file.Close() runs when LoadFile returns, on every path after
\* os.Open; on the nil file of a failed open it closes nothing.
LoadFile(path) ==
  IF Len(path) = 0 THEN
    LET r == Load(stdin, Base(path)) IN
    [fn |-> r.fn, err |-> r.err, log |-> <<<<"read stdin">>>> \o r.log,
     open |-> openFiles, stdin |-> <<>>]
  ELSE
    LET o == OsOpen(path) IN
    IF o.err THEN
      [fn |-> NilFunction,
       err |-> newApiError(ApiErrorFile, <<"can not read ">> \o path),
       log |-> <<<<"open failed", path>>>>, open |-> openFiles, stdin |-> stdin]
    ELSE
      LET r == Load(fs[path].data, Base(path)) IN
      [fn |-> r.fn, err |-> r.err,
       log |-> <<<<"open", o.file>>>> \o r.log \o <<<<"close", o.file>>>>,
       open |-> (openFiles \cup {o.file}) \ {o.file}, stdin |-> stdin]

LoadString(source) ==
  LET r == Load(source, <<"<string>">>) IN
  [fn |-> r.fn, err |-> r.err, log |-> r.log, open |-> openFiles,
   stdin |-> stdin]

\* A Do that invokes whatever the load gave, failed or not.
DoLoaded_always(l) ==
  LET c == PCall(Push(stack, l.fn), 0) IN
  [err |-> c.err, log |-> l.log \o c.log, open |-> l.open,
   stdin |-> l.stdin, reg |-> c.reg]

\* The body DoFile and DoString share; l is what the load gave.
DoLoaded(l) ==
  IF l.err # NoError THEN
    [err |-> l.err, log |-> l.log, open |-> l.open, stdin |-> l.stdin,
     reg |-> stack]
  ELSE
    LET c == PCall(Push(stack, l.fn), 0) IN
    [err |-> c.err, log |-> l.log \o c.log, open |-> l.open,
     stdin |-> l.stdin, reg |-> c.reg]

DoFile(path) == DoLoaded(LoadFile(path))

DoString(source) == DoLoaded(LoadString(source))

(***************************************************************************)
(* The state after the construction of a runtime: no call is active, the   *)
(* registry and the globals table are empty, no file is open.              *)
(***************************************************************************)
EmptyMap == [x \in {} |-> 0]

NoCall == [op |-> "none"]

InitRuntime ==
  /\ stack = <<>>
  /\ fname = "main"
  /\ frames = <<>>
  /\ heap = <<EmptyTable, EmptyTable>>
  /\ issued = EmptyMap
  /\ mtIssued = EmptyMap
  /\ fs = EmptyMap
  /\ stdin = <<>>
  /\ openFiles = {}
  /\ log = <<>>
  /\ last = NoCall

(***************************************************************************)
(* The argument accessors, called from a native function that a script     *)
(* has called with some arguments.                                         *)
(***************************************************************************)
Positions == 1..(MaxArgs + 1)

Stacks == UNION { [1..n -> ArgValues] : n \in 0..MaxArgs }

FuncNames == {"main", "print"}

InitArg == InitRuntime

argFrame == <<frames, heap, issued, mtIssued, fs, stdin, openFiles, log>>

\* A script calls a native function: a new call context.
NativeCall ==
  /\ fname = "main"
  /\ stack' \in Stacks
  /\ fname' \in FuncNames \ {"main"}
  /\ last' = NoCall
  /\ UNCHANGED argFrame

\* The native function returns to the script.
NativeReturn ==
  /\ fname # "main"
  /\ stack' = <<>>
  /\ fname' = "main"
  /\ last' = NoCall
  /\ UNCHANGED argFrame

Accessor(op, n, res) ==
  /\ fname # "main"
  /\ last' = [op |-> op, n |-> n, res |-> res]
  /\ UNCHANGED <<stack, fname>>
  /\ UNCHANGED argFrame

AccessorD(op, n, d, res) ==
  /\ fname # "main"
  /\ last' = [op |-> op, n |-> n, d |-> d, res |-> res]
  /\ UNCHANGED <<stack, fname>>
  /\ UNCHANGED argFrame

CallCheckInt == \E n \in Positions : Accessor("CheckInt", n, CheckInt(n))
CallCheckInt64 == \E n \in Positions : Accessor("CheckInt64", n, CheckInt64(n))
CallCheckNumber == \E n \in Positions : Accessor("CheckNumber", n, CheckNumber(n))
CallCheckString == \E n \in Positions : Accessor("CheckString", n, CheckString(n))
CallCheckBool == \E n \in Positions : Accessor("CheckBool", n, CheckBool(n))
CallCheckTable == \E n \in Positions : Accessor("CheckTable", n, CheckTable(n))
CallCheckFunction ==
  \E n \in Positions : Accessor("CheckFunction", n, CheckFunction(n))
CallCheckUserData ==
  \E n \in Positions : Accessor("CheckUserData", n, CheckUserData(n))
CallCheckThread == \E n \in Positions : Accessor("CheckThread", n, CheckThread(n))

\* The defaults the native function passes.  Some equal the converted value
\* of an argument of ArgValues, some do not.
IntDefaults == {1, 9}
NumberDefaults == {3, 10}
StringDefaults == {<<"s">>, <<"d">>}
TableDefaults == {1, 8}
FunctionDefaults == {"g1", "g9"}
UserDataDefaults == {"u1", "u9"}

CallOptInt ==
  \E n \in Positions, d \in IntDefaults : AccessorD("OptInt", n, d, OptInt(n, d))
CallOptInt64 ==
  \E n \in Positions, d \in IntDefaults :
    AccessorD("OptInt64", n, d, OptInt64(n, d))
CallOptNumber ==
  \E n \in Positions, d \in NumberDefaults :
    AccessorD("OptNumber", n, d, OptNumber(n, d))
CallOptString ==
  \E n \in Positions, d \in StringDefaults :
    AccessorD("OptString", n, d, OptString(n, d))
CallOptBool ==
  \E n \in Positions, d \in BOOLEAN : AccessorD("OptBool", n, d, OptBool(n, d))
CallOptTable ==
  \E n \in Positions, d \in TableDefaults :
    AccessorD("OptTable", n, d, OptTable(n, d))
CallOptFunction ==
  \E n \in Positions, d \in FunctionDefaults :
    AccessorD("OptFunction", n, d, OptFunction(n, d))
CallOptUserData ==
  \E n \in Positions, d \in UserDataDefaults :
    AccessorD("OptUserData", n, d, OptUserData(n, d))

NextArg ==
  \/ NativeCall
  \/ NativeReturn
  \/ CallCheckInt
  \/ CallCheckInt64
  \/ CallCheckNumber
  \/ CallCheckString
  \/ CallCheckBool
  \/ CallCheckTable
  \/ CallCheckFunction
  \/ CallCheckUserData
  \/ CallCheckThread
  \/ CallOptInt
  \/ CallOptInt64
  \/ CallOptNumber
  \/ CallOptString
  \/ CallOptBool
  \/ CallOptTable
  \/ CallOptFunction
  \/ CallOptUserData

SpecArg == InitArg /\ [][NextArg]_vars

(***************************************************************************)
(* The argument accessors: what each expects and what it returns.          *)
(***************************************************************************)
CheckOps ==
  { "CheckInt", "CheckInt64", "CheckNumber", "CheckString", "CheckBool",
    "CheckTable", "CheckFunction", "CheckUserData", "CheckThread" }

OptOps ==
  { "OptInt", "OptInt64", "OptNumber", "OptString", "OptBool", "OptTable",
    "OptFunction", "OptUserData" }

\* The kind K of each accessor.
ExpectedKind(op) ==
  CASE op \in {"CheckInt", "CheckInt64", "CheckNumber"} -> "number"
    [] op \in {"OptInt", "OptInt64", "OptNumber"} -> "number"
    [] op \in {"CheckString", "OptString"} -> "string"
    [] op \in {"CheckBool", "OptBool"} -> "boolean"
    [] op \in {"CheckTable", "OptTable"} -> "table"
    [] op \in {"CheckFunction", "OptFunction"} -> "function"
    [] op \in {"CheckUserData", "OptUserData"} -> "userdata"
    [] op = "CheckThread" -> "thread"

\* The host type of what each accessor returns.
ResultType(op) ==
  CASE op \in {"CheckInt", "OptInt"} -> "int"
    [] op \in {"CheckInt64", "OptInt64"} -> "int64"
    [] op \in {"CheckNumber", "OptNumber"} -> "LNumber"
    [] op \in {"CheckString", "OptString"} -> "gostring"
    [] op \in {"CheckBool", "OptBool"} -> "bool"
    [] op \in {"CheckTable", "OptTable"} -> "*LTable"
    [] op \in {"CheckFunction", "OptFunction"} -> "*LFunction"
    [] op \in {"CheckUserData", "OptUserData"} -> "*LUserData"
    [] op = "CheckThread" -> "*LState"

\* r is the integer that twice/2 truncates to (toward zero).
IsTruncationOf(r, twice) ==
  IF twice >= 0 THEN 2 * r <= twice /\ twice < 2 * r + 2
  ELSE 2 * r >= twice /\ twice > 2 * r - 2

\* ret is the value of the argument v, in the host type of the accessor op:
\* the number converted to an integer for the integer accessors, the payload
\* as it is for the others.
IsValueOfArg(op, ret, v) ==
  /\ ret.k = ResultType(op)
  /\ IF op \in {"CheckInt", "CheckInt64", "OptInt", "OptInt64"}
       THEN IsTruncationOf(ret.v, v.v)
       ELSE ret.v = v.v

\* The type error of the accessor op at position n, for the value v there.
TypeMismatch(op, n, v) ==
  [st |-> "raise",
   msg |-> <<"bad argument #", Digit(n), " to ", fname, " (", ExpectedKind(op),
             " expected, got ", v.k, ")">>]

\* C1: an optional accessor OptK(n, d) returns d when the argument at n is
\* absent or Nil; returns the argument's value (in the host type) when the
\* argument is of kind K; and raises the type error for a value of any other
\* kind.  So whatever it returns for an argument that is there and not Nil is
\* that argument's own value, never the default substituted for it.
C1_OptDefaultOnlyForAbsentOrNil ==
  last.op \in OptOps =>
    LET v == IF last.n <= Len(stack) THEN stack[last.n] ELSE LNil
        absentOrNil == last.n > Len(stack) \/ v.k = "nil"
    IN
    /\ absentOrNil =>
         last.res = [st |-> "return",
                     val |-> [k |-> ResultType(last.op), v |-> last.d]]
    /\ v.k = ExpectedKind(last.op) =>
         /\ last.res.st = "return"
         /\ IsValueOfArg(last.op, last.res.val, v)
    /\ (~absentOrNil /\ v.k # ExpectedKind(last.op)) =>
         last.res = TypeMismatch(last.op, last.n, v)
    /\ (last.res.st = "return" /\ ~absentOrNil) =>
         /\ v.k = ExpectedKind(last.op)
         /\ IsValueOfArg(last.op, last.res.val, v)

\* An optional accessor met a value of another kind, with a default at hand.
C1_Witness ==
  /\ last.op = "OptBool"
  /\ last.n <= Len(stack)
  /\ stack[last.n].k = "number"
  /\ last.res.st = "raise"

\* C2: a mandatory accessor CheckK(n) returns exactly when the kind of the
\* argument at n is K, and then returns the argument's value (in the host
\* type); otherwise, an absent or Nil argument included, it raises
\* "bad argument #<n> to <fname> (<K> expected, got <actual kind>)" and
\* returns nothing.
C2_CheckReturnsIffKind ==
  last.op \in CheckOps =>
    LET v == IF last.n <= Len(stack) THEN stack[last.n] ELSE LNil IN
    /\ (last.res.st = "return") <=> (v.k = ExpectedKind(last.op))
    /\ last.res.st = "return" => IsValueOfArg(last.op, last.res.val, v)
    /\ v.k # ExpectedKind(last.op) =>
         last.res = TypeMismatch(last.op, last.n, v)

\* A mandatory accessor was called for an argument that is absent.
C2_Witness ==
  /\ last.op = "CheckString"
  /\ last.n > Len(stack)
  /\ last.res.st = "raise"
  /\ last.res.msg[6] = "string"
  /\ last.res.msg[8] = "nil"

(***************************************************************************)
(* Where, called while scripts and native functions call each other.       *)
(***************************************************************************)
InitWhere == InitRuntime

whereFrame ==
  <<stack, fname, heap, issued, mtIssued, fs, stdin, openFiles, log>>

\* A script function is called: its frame starts at its first instruction.
CallScript ==
  /\ Len(frames) < MaxDepth
  /\ \E p \in Protos : frames' = <<[Fn |-> [Proto |-> p], Pc |-> 1]>> \o frames
  /\ last' = NoCall
  /\ UNCHANGED whereFrame

\* A native function is called.
CallNative ==
  /\ Len(frames) < MaxDepth
  /\ frames' = <<[Fn |-> [Proto |-> NilProto], Pc |-> 0]>> \o frames
  /\ last' = NoCall
  /\ UNCHANGED whereFrame

\* The innermost function returns.
ReturnFrame ==
  /\ frames # <<>>
  /\ frames' = Tail(frames)
  /\ last' = NoCall
  /\ UNCHANGED whereFrame

\* The innermost script function executes its next instruction.
StepFrame ==
  /\ frames # <<>>
  /\ frames[1].Fn.Proto # NilProto
  /\ frames[1].Pc < Len(frames[1].Fn.Proto.DbgSourcePositions)
  /\ frames' = [frames EXCEPT ![1].Pc = @ + 1]
  /\ last' = NoCall
  /\ UNCHANGED whereFrame

CallWhere ==
  /\ \E level \in 0..MaxDepth :
       last' = [op |-> "Where", level |-> level, res |-> Where(level)]
  /\ UNCHANGED frames
  /\ UNCHANGED whereFrame

NextWhere ==
  \/ CallScript
  \/ CallNative
  \/ ReturnFrame
  \/ StepFrame
  \/ CallWhere

SpecWhere == InitWhere /\ [][NextWhere]_vars

\* The frame that Where(level) is about (when there is one), and the position
\* string of a script frame.
FrameAt(level) == frames[level + 1]

HasFrame(level) == level < Len(frames)

IsScriptFrame(f) == ~f.Fn.Proto.nil

PositionOf(f) ==
  <<f.Fn.Proto.SourceName, ":">>
    \o Itoa(f.Fn.Proto.DbgSourcePositions[f.Pc]) \o <<":">>

\* C10 as stated: Where(level) is "<sourceName>:<line>:" for a script frame
\* and the empty string for a native frame or when there is no frame.
C10_Original ==
  last.op = "Where" =>
    IF HasFrame(last.level) /\ IsScriptFrame(FrameAt(last.level))
      THEN last.res = PositionOf(FrameAt(last.level))
      ELSE last.res = <<>>

\* C10, amended: Where(level) is "<sourceName>:<line>:" for a script frame,
\* "[G]:" for a frame without source (a native function), and the empty
\* string only when no frame exists at that level.
C10_WhereNativeIsG ==
  last.op = "Where" =>
    IF ~HasFrame(last.level) THEN last.res = <<>>
    ELSE IF IsScriptFrame(FrameAt(last.level))
      THEN last.res = PositionOf(FrameAt(last.level))
      ELSE last.res = <<"[G]", ":">>

\* Where was asked, from a script function, about the native function that
\* called it.
C10_Witness ==
  /\ last.op = "Where"
  /\ last.level = 1
  /\ Len(frames) >= 2
  /\ ~IsScriptFrame(frames[2])
  /\ IsScriptFrame(frames[1])
  /\ last.res # <<>>

(***************************************************************************)
(* FindTable, RegisterModule and NewTypeMetatable on one runtime.  A       *)
(* script may have set a global to a value that is no table before the     *)
(* host registers its modules.                                             *)
(***************************************************************************)
SegA == <<"a">>
SegB == <<"b">>
SegF == <<"f">>
SegT == <<"T">>

\* the paths and names the host passes
FindPaths ==
  { SegA, SegB, SegA \o <<Dot>> \o SegB, SegA \o <<Dot>> \o SegB \o <<Dot>> \o SegA,
    <<>> }

RegPaths == { SegA, SegB, SegA \o <<Dot>> \o SegB, LOADED \o <<Dot>> \o SegA }

ModNames == { SegA, SegB, SegA \o <<Dot>> \o SegB }

FuncSets == { (SegB :> "g1"), (SegF :> "g2") }

TypeNames == { SegT, LOADED }

\* the roots the host passes to FindTable: the registry, the globals, a table
\* made by an earlier call, or a value that is no table
Roots ==
  { LTableRef(i) : i \in { j \in 1..Len(heap) : j <= GlobalsIndex + 1 } }
    \cup { LNumber(4) }

RegRoots == { GetIndex(RegistryIndex), GetIndex(GlobalsIndex), LNumber(4) }

InitReg ==
  /\ stack = <<>>
  /\ fname = "main"
  /\ frames = <<>>
  /\ \E g \in { EmptyTable, (LString(SegB) :> LString(<<"x">>)) } :
       heap = <<EmptyTable, g>>
  /\ issued = EmptyMap
  /\ mtIssued = EmptyMap
  /\ fs = EmptyMap
  /\ stdin = <<>>
  /\ openFiles = {}
  /\ log = <<>>
  /\ last = NoCall

regFrame == <<stack, fname, frames, fs, stdin, openFiles, log>>

FindTableStep(roots, paths) ==
  /\ \E root \in roots, path \in paths :
       LET r == FindTable(heap, root, path, 4) IN
       /\ Len(r.heap) <= MaxTables
       /\ heap' = r.heap
       /\ last' = [op |-> "FindTable", root |-> root, path |-> path,
                   res |-> Return(r.ret)]
  /\ UNCHANGED <<issued, mtIssued>>
  /\ UNCHANGED regFrame

CallRegisterModule ==
  /\ \E name \in ModNames, funcs \in FuncSets :
       LET r == RegisterModule(heap, name, funcs) IN
       /\ Len(r.heap) <= MaxTables
       /\ heap' = r.heap
       /\ last' = [op |-> "RegisterModule", name |-> name, funcs |-> funcs,
                   res |-> r.res]
       /\ issued' = IF r.res.st = "return" /\ name \notin DOMAIN issued
                      THEN issued @@ (name :> r.res.val.v)
                      ELSE issued
  /\ UNCHANGED mtIssued
  /\ UNCHANGED regFrame

CallNewTypeMetatable ==
  /\ \E typ \in TypeNames :
       LET r == NewTypeMetatable(heap, typ) IN
       /\ Len(r.heap) <= MaxTables
       /\ heap' = r.heap
       /\ last' = [op |-> "NewTypeMetatable", typ |-> typ, res |-> r.res]
       /\ mtIssued' = IF typ \notin DOMAIN mtIssued
                        THEN mtIssued @@ (typ :> r.res.val.v)
                        ELSE mtIssued
  /\ UNCHANGED issued
  /\ UNCHANGED regFrame

CallFindTable == FindTableStep(RegRoots, RegPaths)

NextReg ==
  \/ CallFindTable
  \/ CallRegisterModule
  \/ CallNewTypeMetatable

SpecReg == InitReg /\ [][NextReg]_vars

\* FindTable calls alone
CallFindTableAnywhere == FindTableStep(Roots, FindPaths)

NextFind == CallFindTableAnywhere

SpecFind == InitReg /\ [][NextFind]_vars

\* NewTypeMetatable and RegisterModule calls alone
NextMeta ==
  \/ CallNewTypeMetatable
  \/ CallRegisterModule

SpecMeta == InitReg /\ [][NextMeta]_vars

(***************************************************************************)
(* What a heap holds along a path, read without changing anything.         *)
(***************************************************************************)
IsTable(v) == v.k = "table"

Lookup(h, tb, seg) ==
  IF [k |-> "string", v |-> seg] \in DOMAIN h[tb.v]
    THEN h[tb.v][[k |-> "string", v |-> seg]]
    ELSE LNil

\* The value at the end of the path segs from cur; Nil when a segment is
\* missing or lies in something that is no table.
RECURSIVE ValueAt(_, _, _)
ValueAt(h, cur, segs) ==
  IF segs = <<>> THEN cur
  ELSE IF ~IsTable(cur) THEN LNil
  ELSE ValueAt(h, Lookup(h, cur, Head(segs)), Tail(segs))

\* Walking segs from cur meets something that is neither missing nor a table
\* (cur itself included).
RECURSIVE Blocked(_, _, _)
Blocked(h, cur, segs) ==
  IF segs = <<>> THEN FALSE
  ELSE IF ~IsTable(cur) THEN TRUE
  ELSE LET nx == Lookup(h, cur, Head(segs)) IN
       IF nx = LNil THEN FALSE
       ELSE IF ~IsTable(nx) THEN TRUE
       ELSE Blocked(h, nx, Tail(segs))

Prefix(segs, i) == SubSeq(segs, 1, i)

\* The prefixes of segs that lead to no table yet.
Missing(h, cur, segs) ==
  { i \in 1..Len(segs) : ~IsTable(ValueAt(h, cur, Prefix(segs, i))) }

\* The number of entries of the first n tables of h.
RECURSIVE CountEntries(_, _)
CountEntries(h, n) ==
  IF n = 0 THEN 0 ELSE Cardinality(DOMAIN h[n]) + CountEntries(h, n - 1)

\* Every entry of every table of h is in h2 as it is in h.
Preserved(h, h2) ==
  \A t \in 1..Len(h) : \A key \in DOMAIN h[t] :
    key \in DOMAIN h2[t] /\ h2[t][key] = h[t][key]

AllTables(h) == { LTableRef(i) : i \in 1..Len(h) }

\* the paths of FindPaths, in segments
FindSegs ==
  { <<SegA>>, <<SegB>>, <<SegA, SegB>>, <<SegA, SegB, SegA>>, <<<<>>>> }

\* C3: FindTable(root, path, size) on a table root whose path meets only
\* missing segments and tables creates an empty table for exactly the
\* missing segments, each written into its parent and nothing else written,
\* and returns the deepest table; whatever table a path leads to stays there
\* through every FindTable call, and a call for a path that exists creates
\* nothing and returns the table it leads to.  So a later call with the same
\* path returns the identical table.
C3_FindTableStep ==
  last'.op = "FindTable" =>
    LET root == last'.root
        segs == Split(last'.path, ".")
        miss == Missing(heap, root, segs)
    IN
    /\ ~Blocked(heap, root, segs) =>
         /\ IsTable(last'.res.val)
         /\ last'.res.val = ValueAt(heap', root, segs)
         /\ Len(heap') = Len(heap) + Cardinality(miss)
         /\ Preserved(heap, heap')
         /\ CountEntries(heap', Len(heap'))
              = CountEntries(heap, Len(heap)) + Cardinality(miss)
         /\ \A i \in 1..Len(segs) :
              IF i \in miss
                THEN ValueAt(heap', root, Prefix(segs, i)).v > Len(heap)
                ELSE ValueAt(heap', root, Prefix(segs, i))
                       = ValueAt(heap, root, Prefix(segs, i))
         /\ Cardinality({ ValueAt(heap', root, Prefix(segs, i)) : i \in miss })
              = Cardinality(miss)
         /\ miss = {} => heap' = heap /\ last'.res.val = ValueAt(heap, root, segs)
    /\ \A r \in AllTables(heap), sg \in FindSegs :
         IsTable(ValueAt(heap, r, sg)) =>
           ValueAt(heap', r, sg) = ValueAt(heap, r, sg)

\* C3: every FindTable call creates exactly the missing tables of its path,
\* and a call for a path that exists returns the table it leads to and
\* creates nothing, after any sequence of FindTable calls.
C3_FindTableIdempotent == [][C3_FindTableStep]_vars

\* FindTable(globals, "a.b") returned a table that holds a table under "a":
\* the path a.b.a was made by an earlier call, and this call found a.b.
C3_Witness ==
  /\ last.op = "FindTable"
  /\ last.root = LTableRef(2)
  /\ last.path = <<"a", ".", "b">>
  /\ IsTable(last.res.val)
  /\ IsTable(Lookup(heap, last.res.val, <<"a">>))
  /\ last.res.val = ValueAt(heap, LTableRef(2), <<<<"a">>, <<"b">>>>)

\* C4: a FindTable whose path meets a value that is neither Nil nor a table
\* (or whose root is no table) returns Nil, and a FindTable that returns Nil
\* leaves every table as it was: nothing is created, nothing is written.
C4_FindTableStep ==
  last'.op = "FindTable" =>
    /\ Blocked(heap, last'.root, Split(last'.path, ".")) =>
         last'.res = [st |-> "return", val |-> LNil]
    /\ last'.res.val = LNil => heap' = heap

\* C4: every FindTable call that meets a non-table value returns Nil, and
\* every FindTable call that returns Nil changes no table.
C4_FindTableNilChangesNothing == [][C4_FindTableStep]_vars

\* FindTable(globals, "a.b") returned Nil because module a holds a function b.
C4_Witness ==
  /\ last.op = "FindTable"
  /\ last.root = LTableRef(2)
  /\ last.path = <<"a", ".", "b">>
  /\ last.res.val = LNil
  /\ IsTable(Lookup(heap, LTableRef(2), <<"a">>))
  /\ Lookup(heap, Lookup(heap, LTableRef(2), <<"a">>), <<"b">>).k = "function"

(***************************************************************************)
(* The loaded-modules table and what it records.                           *)
(***************************************************************************)
\* The table recorded under name in the loaded-modules table; Nil when there
\* is no loaded-modules table or nothing under name in it.
ModLoaded(h, name) ==
  ValueAt(h, LTableRef(1), <<<<"_", "L", "O", "A", "D", "E", "D">>, name>>)

\* Every function of funcs is in the table tb of h, under its name.
Installed(h, tb, funcs) ==
  \A f \in DOMAIN funcs :
    Lookup(h, tb, f) = [k |-> "function", v |-> funcs[f]]

\* C5 as stated: once RegisterModule(name, F) has returned a table, every
\* later RegisterModule(name, F') returns that table and leaves its entries
\* as they are; the first call for a name that returns leaves every entry of
\* F in the table it returns and records the table under name.
C5_OriginalStep ==
  last'.op = "RegisterModule" =>
       IF last'.name \in DOMAIN issued
         THEN /\ last'.res = [st |-> "return",
                              val |-> LTableRef(issued[last'.name])]
              /\ heap'[issued[last'.name]] = heap[issued[last'.name]]
         ELSE last'.res.st = "return" =>
                /\ Installed(heap', last'.res.val, last'.funcs)
                /\ ModLoaded(heap', last'.name) = last'.res.val

\* C5 as stated, of every step.
C5_Original == [][C5_OriginalStep]_vars

\* C5, amended: once RegisterModule(name, F) has returned a table, every
\* later RegisterModule(name, F') returns that table and changes nothing (F'
\* is not merged in), whatever calls happen in between; the table stays
\* recorded under name and no entry of it is removed or replaced, though
\* calls in between may add entries to it.  A RegisterModule(name, F) that
\* finds no table recorded under name and returns leaves every entry of F in
\* the table it returns and records it under name; one that finds a table
\* recorded under name returns it and installs nothing.
C5_RegisterModuleStep ==
  /\ \A name \in DOMAIN issued :
       /\ ModLoaded(heap', name) = LTableRef(issued[name])
       /\ \A key \in DOMAIN heap[issued[name]] :
            /\ key \in DOMAIN heap'[issued[name]]
            /\ heap'[issued[name]][key] = heap[issued[name]][key]
  /\ last'.op = "RegisterModule" =>
       /\ last'.name \in DOMAIN issued =>
            /\ last'.res = [st |-> "return", val |-> LTableRef(issued[last'.name])]
            /\ heap' = heap
       /\ IsTable(ModLoaded(heap, last'.name)) =>
            /\ last'.res = [st |-> "return", val |-> ModLoaded(heap, last'.name)]
            /\ heap' = heap
       /\ (~IsTable(ModLoaded(heap, last'.name)) /\ last'.res.st = "return") =>
            /\ IsTable(last'.res.val)
            /\ Installed(heap', last'.res.val, last'.funcs)
            /\ ModLoaded(heap', last'.name) = last'.res.val

\* C5, amended: RegisterModule is idempotent per name; a later call returns
\* the identical table and changes nothing, and the first call installs F
\* unless a table was already recorded under the name.
C5_RegisterModuleIdempotent == [][C5_RegisterModuleStep]_vars

\* RegisterModule("a", {f}) came back with the table of module a, which an
\* earlier RegisterModule("a", {b}) had made: it holds b and no f.
C5_Witness ==
  /\ last.op = "RegisterModule"
  /\ last.name = <<"a">>
  /\ last.funcs = (<<"f">> :> "g2")
  /\ <<"a">> \in DOMAIN issued
  /\ last.res = [st |-> "return", val |-> LTableRef(issued[<<"a">>])]
  /\ Lookup(heap, last.res.val, <<"b">>).k = "function"
  /\ Lookup(heap, last.res.val, <<"f">>) = LNil

\* C6: RegisterModule(name, F), when no table is recorded under name in the
\* loaded-modules table and the path of name in the globals meets a value
\* that is neither Nil nor a table, raises "name conflict for module(<name>)",
\* leaves every table that existed as it was but for the loaded-modules table
\* that it may have made (empty) in the registry, puts no function anywhere,
\* and records nothing under name.
C6_RegisterModuleStep ==
  ( /\ last'.op = "RegisterModule"
    /\ ~IsTable(ModLoaded(heap, last'.name))
    /\ Blocked(heap, LTableRef(2), Split(last'.name, ".")) )
  =>
    /\ last'.res = [st |-> "raise",
                    msg |-> <<"name conflict for module(">> \o last'.name \o <<")">>]
    /\ \A t \in 2..Len(heap) : heap'[t] = heap[t]
    /\ \A t \in (Len(heap) + 1)..Len(heap') : heap'[t] = EmptyTable
    /\ \A key \in DOMAIN heap'[1] :
         \/ key \in DOMAIN heap[1] /\ heap'[1][key] = heap[1][key]
         \/ /\ key = [k |-> "string", v |-> <<"_", "L", "O", "A", "D", "E", "D">>]
            /\ heap'[1][key] = LTableRef(Len(heap) + 1)
    /\ \A key \in DOMAIN heap[1] : key \in DOMAIN heap'[1]
    /\ ModLoaded(heap', last'.name) = ModLoaded(heap, last'.name)

\* C6: every RegisterModule call that meets a non-table value at the name's
\* place in the globals raises the name conflict, installs nothing,
\* overwrites nothing and records nothing.
C6_NameConflictInstallsNothing == [][C6_RegisterModuleStep]_vars

\* RegisterModule("b", F) raised over the global b that a script had set to
\* a string; the string is still there and nothing is recorded under b.
C6_Witness ==
  /\ last.op = "RegisterModule"
  /\ last.name = <<"b">>
  /\ last.res.st = "raise"
  /\ Lookup(heap, LTableRef(2), <<"b">>) = [k |-> "string", v |-> <<"x">>]
  /\ IsTable(Lookup(heap, LTableRef(1), <<"_", "L", "O", "A", "D", "E", "D">>))
  /\ ModLoaded(heap, <<"b">>) = LNil

\* C7 as stated: NewTypeMetatable(typ) returns the table the first call for
\* typ returned; the first call for typ returns an empty table, which is the
\* metatable of no other type name; and the metatable of a type name never
\* changes.
C7_OriginalStep ==
  /\ \A typ \in DOMAIN mtIssued :
       GetTypeMetatable(heap', typ) = LTableRef(mtIssued[typ])
  /\ last'.op = "NewTypeMetatable" =>
       /\ IsTable(last'.res.val)
       /\ GetTypeMetatable(heap', last'.typ) = last'.res.val
       /\ IF last'.typ \in DOMAIN mtIssued
            THEN last'.res.val = LTableRef(mtIssued[last'.typ])
            ELSE /\ heap'[last'.res.val.v] = EmptyTable
                 /\ \A other \in TypeNames \ {last'.typ} :
                      GetTypeMetatable(heap', other) # last'.res.val

\* C7 as stated, of every step.
C7_Original == [][C7_OriginalStep]_vars

\* C7, amended: NewTypeMetatable(typ) returns the table the registry holds
\* under typ if it holds one, and changes nothing; otherwise it makes an
\* empty table, registers it under typ and returns it, changing nothing
\* else.  So the first call for typ returns a new empty table unless the
\* registry already holds a table under typ, as it does under "_LOADED" once
\* RegisterModule has run: then the first call returns that table, which
\* need not be empty.  Every later call for typ returns the table the first
\* call returned, the metatable of a type name never changes, and no two
\* type names share a metatable.
C7_NewTypeMetatableStep ==
  /\ \A typ \in DOMAIN mtIssued :
       GetTypeMetatable(heap', typ) = LTableRef(mtIssued[typ])
  /\ last'.op = "NewTypeMetatable" =>
       LET old == Lookup(heap, LTableRef(1), last'.typ) IN
       /\ IsTable(last'.res.val)
       /\ GetTypeMetatable(heap', last'.typ) = last'.res.val
       /\ last'.typ \in DOMAIN mtIssued =>
            last'.res.val = LTableRef(mtIssued[last'.typ])
       /\ \A other \in TypeNames \ {last'.typ} :
            GetTypeMetatable(heap', other) # last'.res.val
       /\ IF IsTable(old)
            THEN last'.res.val = old /\ heap' = heap
            ELSE /\ last'.res.val = LTableRef(Len(heap) + 1)
                 /\ Len(heap') = Len(heap) + 1
                 /\ heap'[Len(heap) + 1] = EmptyTable
                 /\ \A t \in 2..Len(heap) : heap'[t] = heap[t]
                 /\ Preserved(heap, heap')
                 /\ DOMAIN heap'[1]
                      = DOMAIN heap[1] \cup {[k |-> "string", v |-> last'.typ]}

\* C7, amended: one metatable per type name, the same at every call; the
\* first call returns a new empty table unless the registry already holds a
\* table under the name.
C7_MetatablePerTypeName == [][C7_NewTypeMetatableStep]_vars

\* The first NewTypeMetatable("_LOADED") came back with the loaded-modules
\* table, which holds module a.
C7_Witness ==
  /\ last.op = "NewTypeMetatable"
  /\ last.typ = <<"_", "L", "O", "A", "D", "E", "D">>
  /\ last.res.val = Lookup(heap, LTableRef(1), last.typ)
  /\ IsTable(Lookup(heap, last.res.val, <<"a">>))

(***************************************************************************)
(* Loading and running chunks.  The file system holds one path that may    *)
(* name a file; standard input holds a source text until it is read.       *)
(***************************************************************************)
PathDF == <<"d", "/", "f">>
PathN == <<"n">>

FilePaths == { PathDF }

\* the paths the host passes: standard input, the file, a path with no file
LoadPaths == { <<>>, PathDF, PathN }

FileStates ==
  { [exists |-> FALSE, data |-> <<>>] }
    \cup { [exists |-> TRUE, data |-> src] : src \in Sources }

\* what standard input may hold: a chunk that runs, one that raises, one
\* that does not parse
StdinTexts == { <<"s">>, <<"s", "e">>, <<"x">> }

InitLoad ==
  /\ stack = <<>>
  /\ fname = "main"
  /\ frames = <<>>
  /\ heap = <<EmptyTable, EmptyTable>>
  /\ issued = EmptyMap
  /\ mtIssued = EmptyMap
  /\ fs \in [FilePaths -> FileStates]
  /\ stdin \in StdinTexts
  /\ openFiles = {}
  /\ log = <<>>
  /\ last = NoCall

loadFrame == <<fname, frames, heap, issued, mtIssued, fs>>

CallLoadFile ==
  /\ \E path \in LoadPaths :
       LET r == LoadFile(path) IN
       /\ last' = [op |-> "LoadFile", path |-> path,
                   res |-> [fn |-> r.fn, err |-> r.err]]
       /\ log' = r.log
       /\ openFiles' = r.open
       /\ stdin' = r.stdin
  /\ UNCHANGED stack
  /\ UNCHANGED loadFrame

CallLoadString ==
  /\ \E source \in Sources :
       LET r == LoadString(source) IN
       /\ last' = [op |-> "LoadString", source |-> source,
                   res |-> [fn |-> r.fn, err |-> r.err]]
       /\ log' = r.log
       /\ openFiles' = r.open
       /\ stdin' = r.stdin
  /\ UNCHANGED stack
  /\ UNCHANGED loadFrame

CallDoFile ==
  /\ \E path \in LoadPaths :
       LET r == DoFile(path) IN
       /\ last' = [op |-> "DoFile", path |-> path, res |-> r.err]
       /\ log' = r.log
       /\ openFiles' = r.open
       /\ stdin' = r.stdin
       /\ stack' = r.reg
  /\ UNCHANGED loadFrame

CallDoString ==
  /\ \E source \in Sources :
       LET r == DoString(source) IN
       /\ last' = [op |-> "DoString", source |-> source, res |-> r.err]
       /\ log' = r.log
       /\ openFiles' = r.open
       /\ stdin' = r.stdin
       /\ stack' = r.reg
  /\ UNCHANGED loadFrame

NextLoad ==
  \/ CallLoadFile
  \/ CallLoadString
  \/ CallDoFile
  \/ CallDoString

SpecLoad == InitLoad /\ [][NextLoad]_vars

\* The events of a kind in a log.
EventsOf(l, kind) == { i \in 1..Len(l) : l[i][1] = kind }

Opens(path) == path \in DOMAIN fs /\ fs[path].exists

Parses(src) == \A i \in 1..Len(src) : src[i] # "x"

\* The statements a chunk executes: all of them, or those up to the first
\* one that raises.
Executed(src) ==
  IF \E i \in 1..Len(src) : src[i] = "e"
    THEN CHOOSE i \in 1..Len(src) :
           src[i] = "e" /\ \A j \in 1..(i - 1) : src[j] # "e"
    ELSE Len(src)

\* C8: DoString and DoFile load, then invoke.  When the load fails (the file
\* does not open, or the source does not parse) the load error is what the
\* call returns, nothing is invoked and no statement runs.  When the load
\* succeeds the chunk is invoked exactly once, with zero arguments, after
\* the compilation; its statements run in order up to the first that raises,
\* and a runtime error comes back as the returned error value.
C8_DoStep ==
  last'.op \in {"DoString", "DoFile"} =>
    LET fromFile == last'.op = "DoFile" /\ last'.path # <<>>
        opened == ~fromFile \/ Opens(last'.path)
        src == IF last'.op = "DoString" THEN last'.source
               ELSE IF last'.path = <<>> THEN stdin
               ELSE IF opened THEN fs[last'.path].data ELSE <<>>
        invokes == EventsOf(log', "invoke")
        compiles == EventsOf(log', "compile")
        stmts == EventsOf(log', "stmt")
    IN
    /\ ~opened =>
         /\ last'.res.type = "ApiErrorFile"
         /\ invokes = {} /\ stmts = {} /\ compiles = {}
    /\ (opened /\ ~Parses(src)) =>
         /\ last'.res.type = "ApiErrorSyntax"
         /\ invokes = {} /\ stmts = {}
    /\ (opened /\ Parses(src)) =>
         /\ Cardinality(invokes) = 1
         /\ Cardinality(compiles) = 1
         /\ \A i \in invokes :
              /\ log'[i] = <<"invoke", 0>>
              /\ \A c \in compiles : c < i
              /\ \A t \in stmts : t > i
         /\ Cardinality(stmts) = Executed(src)
         /\ \A t \in stmts : \A u \in stmts : t < u => log'[t][2] < log'[u][2]
         /\ last'.res.type =
              (IF \E i \in 1..Len(src) : src[i] = "e" THEN "ApiErrorRun" ELSE "nil")
         /\ stack' = stack

\* C8: every DoString and DoFile call invokes the chunk exactly once if the
\* load succeeded and not at all if it failed, and returns the error.
C8_LoadThenInvoke == [][C8_DoStep]_vars

\* DoString was given a statement followed by a syntax error: it returned
\* the compile error and ran nothing.
C8_Witness ==
  /\ last.op = "DoString"
  /\ last.source = <<"s", "x">>
  /\ last.res.type = "ApiErrorSyntax"
  /\ EventsOf(log, "stmt") = {}
  /\ EventsOf(log, "invoke") = {}

\* name is the last element of path (a path that does not end in a slash).
IsBaseName(name, path) ==
  /\ Len(name) >= 1 /\ Len(name) <= Len(path)
  /\ \A i \in 1..Len(name) : name[i] # "/"
  /\ SubSeq(path, Len(path) - Len(name) + 1, Len(path)) = name
  /\ Len(name) < Len(path) => path[Len(path) - Len(name)] = "/"

\* C9: LoadFile("") reads standard input and opens no file; LoadFile(path)
\* of a path that does not open returns the FileError "can not read <path>"
\* and compiles nothing; LoadFile(path) of a path that opens compiles what it
\* read under the base name of path; and whichever way a LoadFile ends, no
\* file is open after it: every file it opened it closed.
C9_LoadFileClosesWhatItOpens ==
  /\ openFiles = {}
  /\ last.op = "LoadFile" =>
       LET opens == EventsOf(log, "open")
           closes == EventsOf(log, "close")
           compiles == EventsOf(log, "compile")
       IN
       /\ Cardinality(opens) = Cardinality(closes)
       /\ \A o \in opens : \E c \in closes : c > o /\ log[c][2] = log[o][2]
       /\ last.path = <<>> =>
            /\ opens = {}
            /\ EventsOf(log, "read stdin") # {}
            /\ Cardinality(compiles) = 1
       /\ (last.path # <<>> /\ ~Opens(last.path)) =>
            /\ last.res.err = [type |-> "ApiErrorFile",
                               msg |-> <<"can not read ">> \o last.path]
            /\ last.res.fn = NilFunction
            /\ compiles = {}
            /\ opens = {}
       /\ (last.path # <<>> /\ Opens(last.path)) =>
            /\ Cardinality(opens) = 1
            /\ Cardinality(compiles) = 1
            /\ \A c \in compiles :
                 /\ IsBaseName(log[c][2], last.path)
                 /\ \A o \in opens : o < c
                 /\ \A x \in closes : c < x
            /\ last.res.err.type =
                 (IF Parses(fs[last.path].data) THEN "nil" ELSE "ApiErrorSyntax")

\* LoadFile("d/f") opened the file, failed to compile it, and closed it.
C9_Witness ==
  /\ last.op = "LoadFile"
  /\ last.path = <<"d", "/", "f">>
  /\ last.res.err.type = "ApiErrorSyntax"
  /\ EventsOf(log, "open") # {}
  /\ EventsOf(log, "close") # {}
  /\ openFiles = {}

====
